---- MODULE Spec2Model ----
(***************************************************************************)
(* A model of the AXI-MMAP bring-up firmware: main (firmware/main.c), the  *)
(* memory pattern tester test_ram and the DMA transfer validator test_dma  *)
(* (firmware/axi_mmap.c), and the serial console of main.c.                *)
(*                                                                         *)
(* Positions in axi_mmap.c are kept in pc and positions in main() in mpc,  *)
(* both as the source line of the next statement to execute (0: not in     *)
(* that file's code).  Memory is not part of the firmware: the words of    *)
(* the tested regions, the DMA buffers and the two DMA engines are the     *)
(* environment, and their misbehaviour is drawn nondeterministically.      *)
(***************************************************************************)
EXTENDS Integers, Sequences, FiniteSets, TLC

VARIABLES
    mpc,        \* main(): line of the next statement of main.c, 0 = main not running
    pc,         \* test_ram / test_dma: line of the next statement of axi_mmap.c, 0 = not inside
    region,     \* test_ram: index of the region passed by the caller (name, base)
    errors,     \* the local `int errors` of the running test routine
    ram,        \* the first two words of each tested memory region
    faults,     \* number of write faults the tested memories have shown so far
    callFaulty, \* whether the region under test has shown a fault during this call
    reports,    \* the error counts test_ram has printed, in order
    trace,      \* output and bus events of the most recent call made by main
    irq_mask,   \* CPU interrupt mask
    irq_ie,     \* CPU interrupt enable
    mem,        \* the bytes of the two DMA buffer pairs (cdma, then dma)
    csr,        \* the registers of the two DMA engines
    xfer,       \* per engine, the transfers strobed and not yet completed
    hw,         \* per engine, how the hardware carries out a transfer
    dmaRuns,    \* number of test_dma invocations so far
    settled,    \* history: both engines were idle when the post-condition check began
    hwTouched,  \* history: an engine has written memory since test_dma was entered
    s,          \* readstr: static char s[64]
    ptr,        \* readstr: static int ptr
    ctrl_reset, \* the reset register written by ctrl_reset_write
    rx,         \* characters received on the UART and not yet read
    sent,       \* number of lines the operator has sent
    irq_pending, \* the interrupt lines that are pending, as a bit mask
    isrEntries, \* number of times isr has been entered
    heard,      \* history: the characters readstr has taken since the last line end
    ret         \* history: what the last call of readstr returned

cpuVars == <<mpc, pc, errors, trace>>
ramVars == <<region, ram, faults, callFaulty, reports>>
irqVars == <<irq_mask, irq_ie>>
dmaVars == <<mem, csr, xfer, hw, dmaRuns, settled, hwTouched>>
conVars == <<s, ptr, ctrl_reset, rx, sent>>
isrVars == <<irq_pending, isrEntries>>
edVars == <<heard, ret>>

vars == <<cpuVars, ramVars, irqVars, dmaVars, conVars, isrVars, edVars>>

-----------------------------------------------------------------------------
(* Bounds of the model. *)

\* Write faults the environment may inject over one boot.
MaxFaults == 2

\* Invocations of test_dma.
MaxDmaRuns == 2

\* Lines the operator sends to the console.
MaxLines == 2

\* Entries of the interrupt service routine.
MaxIrqs == 2

-----------------------------------------------------------------------------
(* Program constants. *)

\* axi_ram[0] = 0x5aa55aa5
Sentinel0 == 1520786085
\* axi_ram[1] = 0x12345678
Sentinel1 == 305419896

\* static char s[64]
BufLen == 64

\* The regions main passes to test_ram, in call order (main.c lines 130..136).
Regions == <<"AXI-RAM", "AXI-DP-RAM-A", "AXI-DP-RAM-B", "AXI-RAM-REG",
             "AXI-RAM-FIFO", "AXI-RAM-XBAR", "AXI-RAM-INT">>

RegionIds == 1..Len(Regions)

\* main.c line of the call that tests region r, and back.
CallLine(r) == 129 + r
RegionOfLine(l) == l - 129
RamCallLines == {CallLine(r) : r \in RegionIds}

-----------------------------------------------------------------------------
(* Report sink and bus events. *)

EvPrint(what, arg) == [op |-> "print", what |-> what, arg |-> arg]
EvWrite(i, v) == [op |-> "write", idx |-> i, val |-> v]
EvRead(i, v) == [op |-> "read", idx |-> i, val |-> v]

\* help(): four puts.
HelpText == <<EvPrint("help", 1), EvPrint("help", 2),
              EvPrint("help", 3), EvPrint("help", 4)>>

\* prompt(): one printf.
PromptText == <<EvPrint("prompt", 0)>>

-----------------------------------------------------------------------------
(* The tested memory: a volatile window whose writes may misbehave. *)

Faults == {"drop", "alias", "flip"}

\* What the memory offers for the next write: a functional write, or, within
\* the fault budget, one of the faults.
FaultChoices == {"ok"} \cup (IF faults < MaxFaults THEN Faults ELSE {})

Flip(v) == IF v % 2 = 1 THEN v - 1 ELSE v + 1

\* The memory after the CPU stores v at word i of region r under fault f:
\* a dropped write (stuck or non-retaining word), a write that lands on both
\* words (aliased address line), a write that stores a flipped bit.
StoreWord(m, r, i, v, f) ==
    CASE f = "ok"    -> [m EXCEPT ![r][i] = v]
      [] f = "drop"  -> m
      [] f = "alias" -> [m EXCEPT ![r] = [j \in 0..1 |-> v]]
      [] f = "flip"  -> [m EXCEPT ![r][i] = Flip(v)]

\* volatile read of word i of region r.
LoadWord(m, r, i) == m[r][i]

-----------------------------------------------------------------------------
(* test_ram, axi_mmap.c lines 13..30 *)

RamUnchangedByMain == UNCHANGED <<irqVars, dmaVars, conVars, isrVars, edVars>>

\* main.c 130..136: test_ram(name, base) is entered.
TestRamCall ==
    /\ mpc \in RamCallLines
    /\ pc = 0
    /\ pc' = 16
    /\ region' = RegionOfLine(mpc)
    /\ callFaulty' = FALSE
    /\ trace' = <<>>
    /\ UNCHANGED <<mpc, errors, ram, faults, reports>>
    /\ RamUnchangedByMain

\* Mutant: the counter is static and keeps its value between invocations.
TestRamInit_NoReset ==
    /\ pc = 16
    /\ pc' = 18
    /\ UNCHANGED <<mpc, errors, region, ram, faults, callFaulty, reports, trace>>
    /\ RamUnchangedByMain

\* line 16: int errors = 0;
TestRamInit ==
    /\ pc = 16
    /\ errors' = 0
    /\ pc' = 18
    /\ UNCHANGED <<mpc, region, ram, faults, callFaulty, reports, trace>>
    /\ RamUnchangedByMain

\* line 18: printf("\nTesting %s at @0x%08x...\n", name, base);
TestRamBanner ==
    /\ pc = 18
    /\ trace' = Append(trace, EvPrint("Testing", Regions[region]))
    /\ pc' = 21
    /\ UNCHANGED <<mpc, region, errors, ram, faults, callFaulty, reports>>
    /\ RamUnchangedByMain

\* A volatile store of v to axi_ram[i], at line `line`, continuing at `next`.
RamStore(line, next, i, v) ==
    /\ pc = line
    /\ \E f \in FaultChoices :
          /\ ram' = StoreWord(ram, region, i, v, f)
          /\ faults' = IF f = "ok" THEN faults ELSE faults + 1
          /\ callFaulty' = (callFaulty \/ f # "ok")
    /\ trace' = Append(trace, EvWrite(i, v))
    /\ pc' = next
    /\ UNCHANGED <<mpc, region, errors, reports>>
    /\ RamUnchangedByMain

\* line 21: axi_ram[0] = 0x5aa55aa5;
TestRamWrite0 == RamStore(21, 22, 0, Sentinel0)

\* Mutant: the second sentinel stored at word 0.
TestRamWrite1_WrongIndex == RamStore(22, 23, 0, Sentinel1)

\* line 22: axi_ram[1] = 0x12345678;
TestRamWrite1 == RamStore(22, 23, 1, Sentinel1)

\* A volatile load of axi_ram[i] compared with v: if (axi_ram[i] != v) errors++;
RamCheck(line, next, i, v) ==
    /\ pc = line
    /\ LET got == LoadWord(ram, region, i) IN
          /\ errors' = IF got # v THEN errors + 1 ELSE errors
          /\ trace' = Append(trace, EvRead(i, got))
    /\ pc' = next
    /\ UNCHANGED <<mpc, region, ram, faults, callFaulty, reports>>
    /\ RamUnchangedByMain

\* lines 23..24
TestRamCheck0 == RamCheck(23, 25, 0, Sentinel0)

\* Mutant: `else if`, word 1 is not checked once word 0 has mismatched.
TestRamCheck1_ElseIf ==
    IF errors > 0
    THEN /\ pc = 25
         /\ pc' = 29
         /\ UNCHANGED <<mpc, errors, trace, ramVars>>
         /\ RamUnchangedByMain
    ELSE RamCheck(25, 29, 1, Sentinel1)

\* lines 25..26
TestRamCheck1 == RamCheck(25, 29, 1, Sentinel1)

\* Mutant: a failed region halts the firmware instead of returning.
TestRamReport_HaltOnError ==
    /\ pc = 29
    /\ trace' = Append(trace, EvPrint("errors", errors))
    /\ reports' = Append(reports, errors)
    /\ pc' = IF errors > 0 THEN -1 ELSE 0
    /\ mpc' = IF errors > 0 THEN mpc ELSE mpc + 1
    /\ UNCHANGED <<region, errors, ram, faults, callFaulty>>
    /\ RamUnchangedByMain

\* lines 29..30: printf("errors: %d\n", errors); and return to main.
TestRamReport ==
    /\ pc = 29
    /\ trace' = Append(trace, EvPrint("errors", errors))
    /\ reports' = Append(reports, errors)
    /\ pc' = 0
    /\ mpc' = mpc + 1
    /\ UNCHANGED <<region, errors, ram, faults, callFaulty>>
    /\ RamUnchangedByMain

TestRam ==
    \/ TestRamCall
    \/ TestRamInit
    \/ TestRamBanner
    \/ TestRamWrite0
    \/ TestRamWrite1
    \/ TestRamCheck0
    \/ TestRamCheck1
    \/ TestRamReport

-----------------------------------------------------------------------------
(* The DMA buffers: dma_data { volatile uint32_t src[4], dst[4]; } laid    *)
(* over AXI_DP_RAM_1A_BASE (cdma) and AXI_DP_RAM_2A_BASE (dma).            *)
(* Addresses are byte offsets into the modelled window.                    *)

\* dma_data *cdma = (dma_data *) AXI_DP_RAM_1A_BASE;
CdmaBase == 0
\* dma_data *dma = (dma_data *) AXI_DP_RAM_2A_BASE;
DmaBase == 32
\* sizeof(uint32_t)
WordSize == 4
\* the number of words of src and of dst
BufWords == 4

BufSize == BufWords * WordSize      \* sizeof(cdma->src), sizeof(cdma->dst)
PairSize == 2 * BufSize             \* sizeof(dma_data)
MemSize == 2 * PairSize
Addrs == 0..(MemSize - 1)

\* &p->src[0] and &p->dst[0] for the pair at base p.
SrcOf(base) == base
DstOf(base) == base + BufSize
\* &buf[i]
WordAt(buf, i) == buf + i * WordSize

\* The bytes of a 32-bit value as the little-endian CPU stores them.
\* 0x12345678
SeedCdma == <<120, 86, 52, 18>>
\* 0xAABBCCDD
SeedDma == <<221, 204, 187, 170>>
\* memset's fill byte 0xFF
PoisonByte == 255

\* memset(base, byte, n)
Memset(m, base, byte, n) ==
    [a \in Addrs |-> IF a \in base..(base + n - 1) THEN byte ELSE m[a]]

\* *(volatile uint32_t *)addr = w
StoreWord32(m, addr, w) ==
    [a \in Addrs |-> IF a \in addr..(addr + WordSize - 1) THEN w[a - addr + 1] ELSE m[a]]

\* The n bytes at addr.
Bytes(m, addr, n) == [i \in 1..n |-> m[addr + i - 1]]

\* memcmp(a, b, n): 0 when equal, else the sign of the first differing byte.
Memcmp(m, a, b, n) ==
    LET x == Bytes(m, a, n)
        y == Bytes(m, b, n)
        d == {i \in 1..n : x[i] # y[i]}
    IN  IF d = {} THEN 0
        ELSE LET i == CHOOSE k \in d : \A j \in d : k <= j
             IN  IF x[i] < y[i] THEN -1 ELSE 1

\* The lines dump_buf prints for the buffer at addr: each word's address and value.
DumpLines(m, addr, size) ==
    [k \in 1..(size \div WordSize) |->
        [addr |-> WordAt(addr, k - 1), val |-> Bytes(m, WordAt(addr, k - 1), WordSize)]]

EvDump(name, lines) == [op |-> "dump", name |-> name, lines |-> lines]
EvCsr(e, reg, v) == [op |-> "csr", engine |-> e, reg |-> reg, val |-> v]

-----------------------------------------------------------------------------
(* The two DMA engines (hardware).  A transfer is latched when valid goes  *)
(* from 0 to 1 and is carried out some time later; how the hardware moves  *)
(* the data is fixed per engine and unknown to the firmware.               *)

Engines == {"cdma", "dma"}

HwModes == {"copy", "cross", "zero", "short"}

\* The pair the other engine works on.
OtherPair(addr) == (addr + PairSize) % MemSize

\* Memory after the engine carries out descriptor d in mode `mode`:
\* copy: len bytes from read_addr to write_addr; cross: the data is fetched
\* from the other engine's pair; zero: zeroes are written; short: the last
\* word is not transferred.
HwTransfer(m, mode, d) ==
    LET n == IF mode = "short" THEN d.len - WordSize ELSE d.len
        from(a) == CASE mode = "cross" -> m[OtherPair(d.ra) + (a - d.wa)]
                     [] mode = "zero"  -> 0
                     [] OTHER          -> m[d.ra + (a - d.wa)]
    IN  [a \in Addrs |-> IF a \in d.wa..(d.wa + n - 1) THEN from(a) ELSE m[a]]

\* The registers after a write, and the transfers pending after it.
CsrAfter(c, e, reg, v) == [c EXCEPT ![e][reg] = v]

XferAfter(x, c, e, reg, v) ==
    IF reg = "valid" /\ v = 1 /\ c[e].valid = 0
    THEN [x EXCEPT ![e] = Append(@, [ra |-> c[e].read_addr,
                                      wa |-> c[e].write_addr,
                                      len |-> c[e].len])]
    ELSE x

\* The engine completes its oldest pending transfer.
EngineComplete(e) ==
    /\ xfer[e] # <<>>
    /\ mem' = HwTransfer(mem, hw[e], Head(xfer[e]))
    /\ xfer' = [xfer EXCEPT ![e] = Tail(@)]
    /\ hwTouched' = TRUE
    /\ UNCHANGED <<cpuVars, ramVars, irqVars, conVars, isrVars, edVars, csr, hw, dmaRuns, settled>>

Hardware == \E e \in Engines : EngineComplete(e)

-----------------------------------------------------------------------------
(* test_dma, axi_mmap.c lines 41..96 *)

DmaFrame == UNCHANGED <<mpc, ramVars, irqVars, conVars, isrVars, edVars, hw>>

BothIdle == \A e \in Engines : xfer[e] = <<>>

\* test_dma(name) is entered.  main() never calls it (main.c lines 129..143);
\* it is entered from outside main, at most MaxDmaRuns times.
TestDmaCall ==
    /\ mpc = 0
    /\ pc = 0
    /\ dmaRuns < MaxDmaRuns
    /\ pc' = 42
    /\ dmaRuns' = dmaRuns + 1
    /\ trace' = <<>>
    /\ settled' = FALSE
    /\ hwTouched' = FALSE
    /\ UNCHANGED <<errors, mem, csr, xfer>>
    /\ DmaFrame

\* Mutant: the counter is static and keeps its value between invocations.
TestDmaInit_NoReset ==
    /\ pc = 42
    /\ pc' = 50
    /\ UNCHANGED <<errors, trace, mem, csr, xfer, dmaRuns, settled, hwTouched>>
    /\ DmaFrame

\* line 42: int errors = 0;
TestDmaInit ==
    /\ pc = 42
    /\ errors' = 0
    /\ pc' = 50
    /\ UNCHANGED <<trace, mem, csr, xfer, dmaRuns, settled, hwTouched>>
    /\ DmaFrame

\* A printf of test_dma at line `line`.
DmaPrint(line, next, what, arg) ==
    /\ pc = line
    /\ trace' = Append(trace, EvPrint(what, arg))
    /\ pc' = next
    /\ UNCHANGED <<errors, mem, csr, xfer, dmaRuns, settled, hwTouched>>
    /\ DmaFrame

\* line 50: printf("\nTesting %s...\n", name);
TestDmaBanner == DmaPrint(50, 53, "Testing", "DMA")

\* A store to the buffers: the memory becomes m.
DmaStore(line, next, m) ==
    /\ pc = line
    /\ mem' = m
    /\ pc' = next
    /\ UNCHANGED <<errors, trace, csr, xfer, dmaRuns, settled, hwTouched>>
    /\ DmaFrame

\* line 53: memset(cdma, 0xFF, sizeof(*cdma));
TestDmaPoisonCdma == DmaStore(53, 54, Memset(mem, CdmaBase, PoisonByte, PairSize))

\* Mutant: only the src half of the pair is poisoned, sizeof(dma->src).
TestDmaPoisonDma_SrcOnly == DmaStore(54, 55, Memset(mem, DmaBase, PoisonByte, BufSize))

\* line 54: memset(dma, 0xFF, sizeof(*dma));
TestDmaPoisonDma == DmaStore(54, 55, Memset(mem, DmaBase, PoisonByte, PairSize))

\* line 55: cdma->src[1] = 0x12345678;
TestDmaSeedCdma == DmaStore(55, 56, StoreWord32(mem, WordAt(SrcOf(CdmaBase), 1), SeedCdma))

\* line 56: dma->src[2] = 0xAABBCCDD;
TestDmaSeedDma == DmaStore(56, 59, StoreWord32(mem, WordAt(SrcOf(DmaBase), 2), SeedDma))

\* errors += (memcmp(a, b, sizeof) == 0) when onEqual, errors += (memcmp(...) != 0) otherwise.
DmaCompare(line, next, a, b, onEqual) ==
    /\ pc = line
    /\ errors' = errors + (IF (Memcmp(mem, a, b, BufSize) = 0) = onEqual THEN 1 ELSE 0)
    /\ pc' = next
    /\ UNCHANGED <<trace, mem, csr, xfer, dmaRuns, hwTouched>>
    /\ DmaFrame

\* Mutant: the pre-condition check counts a difference instead of an equality.
TestDmaPreCdma_NotEqual ==
    /\ DmaCompare(59, 60, SrcOf(DmaBase), DstOf(CdmaBase), FALSE)
    /\ UNCHANGED settled

\* line 59: errors += (memcmp(dma->src, cdma->dst, sizeof(dma->src)) == 0);
TestDmaPreCdma ==
    /\ DmaCompare(59, 60, SrcOf(DmaBase), DstOf(CdmaBase), TRUE)
    /\ UNCHANGED settled

\* line 60: errors += (memcmp(cdma->src, dma->dst, sizeof(cdma->src)) == 0);
TestDmaPreDma ==
    /\ DmaCompare(60, 63, SrcOf(CdmaBase), DstOf(DmaBase), TRUE)
    /\ UNCHANGED settled

\* line 63: printf("\nBEFORE state:\n");
TestDmaBeforeHeader == DmaPrint(63, 64, "BEFORE state", "")

\* dump_buf(bufname, buf, size), lines 32..39
DumpBuf(line, next, bufname, buf, size) ==
    /\ pc = line
    /\ trace' = Append(trace, EvDump(bufname, DumpLines(mem, buf, size)))
    /\ pc' = next
    /\ UNCHANGED <<errors, mem, csr, xfer, dmaRuns, settled, hwTouched>>
    /\ DmaFrame

\* lines 64..67
TestDmaDumpBefore ==
    \/ DumpBuf(64, 65, "src_cdma", SrcOf(CdmaBase), BufSize)
    \/ DumpBuf(65, 66, "dst_cdma", DstOf(CdmaBase), BufSize)
    \/ DumpBuf(66, 67, "src_dma", SrcOf(DmaBase), BufSize)
    \/ DumpBuf(67, 70, "dst_dma", DstOf(DmaBase), BufSize)

\* A register write axi_<e>_<reg>_write(v).
CsrWrite(line, next, e, reg, v) ==
    /\ pc = line
    /\ csr' = CsrAfter(csr, e, reg, v)
    /\ xfer' = XferAfter(xfer, csr, e, reg, v)
    /\ trace' = Append(trace, EvCsr(e, reg, v))
    /\ pc' = next
    /\ UNCHANGED <<errors, mem, dmaRuns, settled, hwTouched>>
    /\ DmaFrame

\* Mutant: the length programmed is that of the whole pair, sizeof(*cdma).
TestDmaCdmaLen_WholePair == CsrWrite(72, 73, "cdma", "len", PairSize)

\* Mutant: CDMA is pointed at the other pair's dst.
TestDmaCdmaWriteAddr_OtherPair == CsrWrite(71, 72, "cdma", "write_addr", DstOf(DmaBase))

\* lines 70..74: configure CDMA and strobe valid.
TestDmaCdmaReadAddr == CsrWrite(70, 71, "cdma", "read_addr", SrcOf(CdmaBase))
TestDmaCdmaWriteAddr == CsrWrite(71, 72, "cdma", "write_addr", DstOf(CdmaBase))
TestDmaCdmaLen == CsrWrite(72, 73, "cdma", "len", BufSize)
TestDmaCdmaValid1 == CsrWrite(73, 74, "cdma", "valid", 1)
TestDmaCdmaValid0 == CsrWrite(74, 77, "cdma", "valid", 0)

\* lines 77..81: configure DMA and strobe valid.
TestDmaDmaReadAddr == CsrWrite(77, 78, "dma", "read_addr", SrcOf(DmaBase))
TestDmaDmaWriteAddr == CsrWrite(78, 79, "dma", "write_addr", DstOf(DmaBase))
TestDmaDmaLen == CsrWrite(79, 80, "dma", "len", BufSize)
TestDmaDmaValid1 == CsrWrite(80, 81, "dma", "valid", 1)
TestDmaDmaValid0 == CsrWrite(81, 84, "dma", "valid", 0)

\* line 84: printf("\AFTER state:\n");
TestDmaAfterHeader == DmaPrint(84, 85, "AFTER state", "")

\* Mutant: the last "after" dump prints the CDMA destination under the DMA name.
TestDmaDumpAfter_WrongBuffer ==
    \/ DumpBuf(85, 86, "src_cdma", SrcOf(CdmaBase), BufSize)
    \/ DumpBuf(86, 87, "dst_cdma", DstOf(CdmaBase), BufSize)
    \/ DumpBuf(87, 88, "src_dma", SrcOf(DmaBase), BufSize)
    \/ DumpBuf(88, 91, "dst_dma", DstOf(CdmaBase), BufSize)

\* lines 85..88
TestDmaDumpAfter ==
    \/ DumpBuf(85, 86, "src_cdma", SrcOf(CdmaBase), BufSize)
    \/ DumpBuf(86, 87, "dst_cdma", DstOf(CdmaBase), BufSize)
    \/ DumpBuf(87, 88, "src_dma", SrcOf(DmaBase), BufSize)
    \/ DumpBuf(88, 91, "dst_dma", DstOf(DmaBase), BufSize)

\* line 91: errors += (memcmp(dma->src, cdma->dst, sizeof(dma->src)) != 0);
TestDmaPostCdma ==
    /\ DmaCompare(91, 92, SrcOf(DmaBase), DstOf(CdmaBase), FALSE)
    /\ settled' = BothIdle

\* line 92: errors += (memcmp(cdma->src, dma->dst, sizeof(cdma->src)) != 0);
TestDmaPostDma ==
    /\ DmaCompare(92, 95, SrcOf(CdmaBase), DstOf(DmaBase), FALSE)
    /\ UNCHANGED settled

\* lines 95..96: printf("\nDMA errors: %d\n", errors); and return.
TestDmaReport == DmaPrint(95, 0, "DMA errors", errors)

TestDma ==
    \/ TestDmaCall
    \/ TestDmaInit
    \/ TestDmaBanner
    \/ TestDmaPoisonCdma
    \/ TestDmaPoisonDma
    \/ TestDmaSeedCdma
    \/ TestDmaSeedDma
    \/ TestDmaPreCdma
    \/ TestDmaPreDma
    \/ TestDmaBeforeHeader
    \/ TestDmaDumpBefore
    \/ TestDmaCdmaReadAddr
    \/ TestDmaCdmaWriteAddr
    \/ TestDmaCdmaLen
    \/ TestDmaCdmaValid1
    \/ TestDmaCdmaValid0
    \/ TestDmaDmaReadAddr
    \/ TestDmaDmaWriteAddr
    \/ TestDmaDmaLen
    \/ TestDmaDmaValid1
    \/ TestDmaDmaValid0
    \/ TestDmaAfterHeader
    \/ TestDmaDumpAfter
    \/ TestDmaPostCdma
    \/ TestDmaPostDma
    \/ TestDmaReport

-----------------------------------------------------------------------------
(* main, main.c lines 120..146 *)

\* The bit of the UART in the interrupt mask (1 << UART_INTERRUPT).
UartIrqBit == 1

MainFrame == UNCHANGED <<pc, errors, ramVars, dmaVars, conVars, isrVars, edVars>>

\* lines 123..126: irq_setmask(0); irq_setie(1);
MainIrqInit ==
    /\ mpc = 124
    /\ irq_mask' = 0
    /\ irq_ie' = 1
    /\ mpc' = 127
    /\ UNCHANGED trace
    /\ MainFrame

\* line 127: uart_init(); the driver unmasks the UART interrupt.
MainUartInit ==
    /\ mpc = 127
    /\ irq_mask' = UartIrqBit
    /\ mpc' = 130
    /\ UNCHANGED <<irq_ie, trace>>
    /\ MainFrame

\* The line main continues at after its last test_ram call (line 136).
AfterTests == 137

\* line 139: help();
MainHelp ==
    /\ mpc = AfterTests
    /\ pc = 0
    /\ trace' = HelpText
    /\ mpc' = 140
    /\ UNCHANGED <<irq_mask, irq_ie>>
    /\ MainFrame

\* line 140: prompt();
MainPrompt ==
    /\ mpc = 140
    /\ trace' = PromptText
    /\ mpc' = 142
    /\ UNCHANGED <<irq_mask, irq_ie>>
    /\ MainFrame

Main ==
    \/ MainIrqInit
    \/ MainUartInit
    \/ MainHelp
    \/ MainPrompt

-----------------------------------------------------------------------------
(* The serial console, main.c lines 21..118.  Characters are their codes.  *)

\* The C string that starts at index i of buffer b: the characters before the first NUL.
RECURSIVE CStr(_, _)
CStr(b, i) == IF i >= BufLen \/ b[i] = 0 THEN <<>> ELSE <<b[i]>> \o CStr(b, i + 1)

\* "help" and "reboot", the literals of console_service.
HelpCmd == <<104, 101, 108, 112>>
RebootCmd == <<114, 101, 98, 111, 111, 116>>

EvEcho(str) == [op |-> "echo", str |-> str]

\* Mutant: the full-buffer test compares with sizeof(s) instead of sizeof(s) - 1.
Readstr_OffByOne(b, p, c) ==
    CASE c \in {127, 8} ->
            IF p > 0
            THEN [s |-> b, ptr |-> p - 1, out |-> <<EvEcho(<<8, 32, 8>>)>>, line |-> FALSE]
            ELSE [s |-> b, ptr |-> p, out |-> <<>>, line |-> FALSE]
      [] c = 7 ->
            [s |-> b, ptr |-> p, out |-> <<>>, line |-> FALSE]
      [] c \in {13, 10} ->
            [s |-> [b EXCEPT ![p] = 0], ptr |-> 0, out |-> <<EvEcho(<<10>>)>>, line |-> TRUE]
      [] OTHER ->
            IF p >= BufLen
            THEN [s |-> b, ptr |-> p, out |-> <<>>, line |-> FALSE]
            ELSE [s |-> [b EXCEPT ![p] = c], ptr |-> p + 1, out |-> <<EvEcho(<<c>>)>>,
                  line |-> FALSE]

\* Mutant: a line end terminates the string and leaves the cursor where it is.
Readstr_NoCursorReset(b, p, c) ==
    CASE c \in {127, 8} ->
            IF p > 0
            THEN [s |-> b, ptr |-> p - 1, out |-> <<EvEcho(<<8, 32, 8>>)>>, line |-> FALSE]
            ELSE [s |-> b, ptr |-> p, out |-> <<>>, line |-> FALSE]
      [] c = 7 ->
            [s |-> b, ptr |-> p, out |-> <<>>, line |-> FALSE]
      [] c \in {13, 10} ->
            [s |-> [b EXCEPT ![p] = 0], ptr |-> p, out |-> <<EvEcho(<<10>>)>>, line |-> TRUE]
      [] OTHER ->
            IF p >= BufLen - 1
            THEN [s |-> b, ptr |-> p, out |-> <<>>, line |-> FALSE]
            ELSE [s |-> [b EXCEPT ![p] = c], ptr |-> p + 1, out |-> <<EvEcho(<<c>>)>>,
                  line |-> FALSE]

\* readstr() once a character c is waiting: the buffer and cursor it
\* leaves, what it writes to stdout, and whether it returns s (or NULL).
Readstr(b, p, c) ==
    CASE c \in {127, 8} ->
            IF p > 0
            THEN [s |-> b, ptr |-> p - 1, out |-> <<EvEcho(<<8, 32, 8>>)>>, line |-> FALSE]
            ELSE [s |-> b, ptr |-> p, out |-> <<>>, line |-> FALSE]
      [] c = 7 ->
            [s |-> b, ptr |-> p, out |-> <<>>, line |-> FALSE]
      [] c \in {13, 10} ->
            [s |-> [b EXCEPT ![p] = 0], ptr |-> 0, out |-> <<EvEcho(<<10>>)>>, line |-> TRUE]
      [] OTHER ->
            IF p >= BufLen - 1
            THEN [s |-> b, ptr |-> p, out |-> <<>>, line |-> FALSE]
            ELSE [s |-> [b EXCEPT ![p] = c], ptr |-> p + 1, out |-> <<EvEcho(<<c>>)>>,
                  line |-> FALSE]

\* get_token(&str) with *str at index i of b: the buffer it leaves (the
\* first space overwritten by NUL), the token, and the new *str.
GetToken(b, i) ==
    LET str == CStr(b, i)
        sp == {k \in 1..Len(str) : str[k] = 32}
    IN  IF sp = {}
        THEN [s |-> b, token |-> str, rest |-> i + Len(str)]
        ELSE LET k == CHOOSE k \in sp : \A j \in sp : k <= j
             IN  [s |-> [b EXCEPT ![i + k - 1] = 0],
                  token |-> SubSeq(str, 1, k - 1),
                  rest |-> i + k]

\* strcmp(a, b) on strings without their NUL: 0 when equal, else the sign.
Strcmp(a, b) ==
    LET at(x, k) == IF k <= Len(x) THEN x[k] ELSE 0
        n == IF Len(a) < Len(b) THEN Len(b) ELSE Len(a)
        d == {k \in 1..n : at(a, k) # at(b, k)}
    IN  IF d = {} THEN 0
        ELSE LET k == CHOOSE k \in d : \A j \in d : k <= j
             IN  IF at(a, k) < at(b, k) THEN -1 ELSE 1

\* reboot_cmd(): ctrl_reset_write(1);
RebootText == <<EvCsr("ctrl", "reset", 1)>>

\* Mutant: the commands are matched as prefixes of the token (strncmp).
DispatchPrefix(token) ==
    IF Len(token) >= Len(HelpCmd) /\ SubSeq(token, 1, Len(HelpCmd)) = HelpCmd
    THEN [out |-> HelpText \o PromptText, reset |-> FALSE]
    ELSE IF Len(token) >= Len(RebootCmd) /\ SubSeq(token, 1, Len(RebootCmd)) = RebootCmd
    THEN [out |-> RebootText \o PromptText, reset |-> TRUE]
    ELSE [out |-> PromptText, reset |-> FALSE]

\* console_service lines 113..117 for a token: what is emitted, in order,
\* and whether the reset register is written.
Dispatch(token) ==
    IF Strcmp(token, HelpCmd) = 0
    THEN [out |-> HelpText \o PromptText, reset |-> FALSE]
    ELSE IF Strcmp(token, RebootCmd) = 0
    THEN [out |-> RebootText \o PromptText, reset |-> TRUE]
    ELSE [out |-> PromptText, reset |-> FALSE]

ConsoleFrame == UNCHANGED <<mpc, pc, errors, ramVars, irqVars, dmaVars, isrVars>>

\* What a call of readstr returned: NULL, or the string at s, with the
\* characters the call and its predecessors took to form it.
Null == [line |-> FALSE, str |-> <<>>, raw |-> <<>>]
Returned(str, raw) == [line |-> TRUE, str |-> str, raw |-> raw]

\* lines 141..143: while(1) console_service(); with no character waiting,
\* readstr returns NULL and console_service returns at once.
ConsoleIdle ==
    /\ mpc = 142
    /\ rx = <<>>
    /\ trace' = <<>>
    /\ ret' = Null
    /\ UNCHANGED <<conVars, heard>>
    /\ ConsoleFrame

\* console_service() with a character waiting: readstr consumes it; on a
\* completed line the first token is dispatched and the prompt printed.
ConsoleService ==
    /\ mpc = 142
    /\ rx # <<>>
    /\ LET r == Readstr(s, ptr, Head(rx))
           g == GetToken(r.s, 0)
           d == Dispatch(g.token)
       IN  /\ rx' = Tail(rx)
           /\ ptr' = r.ptr
           /\ IF r.line
              THEN /\ s' = g.s
                   /\ trace' = r.out \o d.out
                   /\ ctrl_reset' = IF d.reset THEN 1 ELSE ctrl_reset
              ELSE /\ s' = r.s
                   /\ trace' = r.out
                   /\ UNCHANGED ctrl_reset
           /\ ret' = IF r.line THEN Returned(CStr(r.s, 0), heard) ELSE Null
           /\ heard' = IF r.line THEN <<>> ELSE Append(heard, Head(rx))
    /\ UNCHANGED sent
    /\ ConsoleFrame

-----------------------------------------------------------------------------
(* The operator at the other end of the UART.                              *)

Words == {<<>>, HelpCmd, RebootCmd, HelpCmd \o <<32>> \o RebootCmd}
\* Typed before a word: nothing, a space, a letter, a backspace.
Before == {<<>>, <<32>>, <<120>>, <<8>>}
\* Typed after it: nothing, a space, a letter, a delete, a bell, a NUL, a corrected typo.
After == {<<>>, <<32>>, <<120>>, <<127>>, <<7>>, <<0>>, <<120, 8>>}
\* A line longer than the buffer.
LongLine == [i \in 1..(BufLen + 1) |-> 120]
LineEnds == {<<13>>, <<10>>}

Lines ==
    {a \o w \o b \o e : a \in Before, w \in Words, b \in After, e \in LineEnds}
        \cup {LongLine \o <<127, 10>>}

\* The operator sends a line; its characters wait in the receive FIFO.
UartReceive ==
    /\ mpc = 142
    /\ rx = <<>>
    /\ sent < MaxLines
    /\ \E l \in Lines : rx' = l
    /\ sent' = sent + 1
    /\ UNCHANGED <<cpuVars, ramVars, irqVars, dmaVars, isrVars, edVars, s, ptr, ctrl_reset>>

-----------------------------------------------------------------------------
(* The interrupt service routine, isr.c lines 9..20.  Interrupt lines are  *)
(* the bits of a mask; the UART is bit UART_INTERRUPT.                     *)

\* a & b, a | b on bit masks.
RECURSIVE BitAnd(_, _)
BitAnd(a, b) ==
    IF a = 0 \/ b = 0 THEN 0
    ELSE (a % 2) * (b % 2) + 2 * BitAnd(a \div 2, b \div 2)
BitOr(a, b) == a + b - BitAnd(a, b)

\* The interrupt lines of the CPU: the UART and one other source.
IrqBits == {UartIrqBit, 2 * UartIrqBit}

\* A device raises its interrupt line.
IrqRaise ==
    /\ \E b \in IrqBits :
          /\ BitAnd(irq_pending, b) = 0
          /\ irq_pending' = BitOr(irq_pending, b)
    /\ UNCHANGED <<cpuVars, ramVars, irqVars, dmaVars, conVars, edVars, isrEntries>>

\* uart_isr() of the UART driver: the received character goes to the
\* receive buffer and the UART event is acknowledged.
UartIsr ==
    /\ rx' = Append(rx, Head(LongLine))
    /\ irq_pending' = irq_pending - BitAnd(irq_pending, UartIrqBit)

\* Mutant: the handler is called for any pending UART interrupt, masked or not.
Isr_NoMask ==
    /\ irq_ie = 1
    /\ isrEntries < MaxIrqs
    /\ isrEntries' = isrEntries + 1
    /\ LET irqs == irq_pending
       IN  IF BitAnd(irqs, UartIrqBit) # 0
           THEN UartIsr
           ELSE UNCHANGED <<irq_pending, rx>>
    /\ UNCHANGED <<cpuVars, ramVars, irqVars, dmaVars, edVars, s, ptr, ctrl_reset, sent>>

\* isr(): irqs = irq_pending() & irq_getmask();
\*        if(irqs & (1 << UART_INTERRUPT)) uart_isr();
\* The CPU enters it with interrupts enabled, between any two statements of
\* the interrupted code.
Isr ==
    /\ irq_ie = 1
    /\ isrEntries < MaxIrqs
    /\ isrEntries' = isrEntries + 1
    /\ LET irqs == BitAnd(irq_pending, irq_mask)
       IN  IF BitAnd(irqs, UartIrqBit) # 0
           THEN UartIsr
           ELSE UNCHANGED <<irq_pending, rx>>
    /\ UNCHANGED <<cpuVars, ramVars, irqVars, dmaVars, edVars, s, ptr, ctrl_reset, sent>>

-----------------------------------------------------------------------------
(* Initial values of each part of the state. *)

InitCpu(m) ==
    /\ mpc = m
    /\ pc = 0
    /\ errors = 0
    /\ trace = <<>>

InitRam ==
    /\ region = 0
    /\ ram = [r \in RegionIds |-> [i \in 0..1 |-> 0]]
    /\ faults = 0
    /\ callFaulty = FALSE
    /\ reports = <<>>

InitIrq ==
    /\ irq_mask = 0
    /\ irq_ie = 0

\* What the DMA buffers may hold before test_dma touches them: cleared
\* memory, erased memory, or the image a passing transfer would leave.
ZeroImage == [a \in Addrs |-> 0]
PoisonImage == [a \in Addrs |-> PoisonByte]
StaleImage ==
    LET a == StoreWord32(PoisonImage, WordAt(SrcOf(CdmaBase), 1), SeedCdma)
        b == StoreWord32(a, WordAt(DstOf(CdmaBase), 1), SeedCdma)
        c == StoreWord32(b, WordAt(SrcOf(DmaBase), 2), SeedDma)
    IN  StoreWord32(c, WordAt(DstOf(DmaBase), 2), SeedDma)
InitMems == {ZeroImage, PoisonImage, StaleImage}

InitDmaRegs ==
    /\ csr = [e \in Engines |-> [read_addr |-> 0, write_addr |-> 0, len |-> 0, valid |-> 0]]
    /\ xfer = [e \in Engines |-> <<>>]
    /\ dmaRuns = 0
    /\ settled = FALSE
    /\ hwTouched = FALSE

InitConsole ==
    /\ s = [i \in 0..(BufLen - 1) |-> 0]
    /\ ptr = 0
    /\ ctrl_reset = 0
    /\ rx = <<>>
    /\ sent = 0
    /\ heard = <<>>
    /\ ret = Null

InitIsr ==
    /\ irq_pending = 0
    /\ isrEntries = 0

-----------------------------------------------------------------------------
(* The boot sequence: main from reset up to the console loop, with no      *)
(* character arriving on the UART.                                         *)

InitBoot ==
    /\ InitCpu(124)
    /\ InitRam
    /\ InitIrq
    /\ mem = ZeroImage
    /\ hw = [e \in Engines |-> "copy"]
    /\ InitDmaRegs
    /\ InitConsole
    /\ InitIsr

NextBoot ==
    \/ Main
    \/ TestRam
    \/ ConsoleIdle

SpecBoot == InitBoot /\ [][NextBoot]_vars

\* The CPU keeps executing: main never pauses while it has a next statement.
FairBoot == SpecBoot /\ WF_vars(NextBoot)

-----------------------------------------------------------------------------
(* test_dma entered on its own, with the two engines running beside it.    *)

InitDma ==
    /\ InitCpu(0)
    /\ InitRam
    /\ InitIrq
    /\ mem \in InitMems
    /\ hw \in [Engines -> HwModes]
    /\ InitDmaRegs
    /\ InitConsole
    /\ InitIsr

NextDma ==
    \/ TestDma
    \/ Hardware

SpecDma == InitDma /\ [][NextDma]_vars

-----------------------------------------------------------------------------
(* The console loop after a boot on functional memory, with an operator.   *)

InitConsoleLoop ==
    /\ mpc = 142
    /\ pc = 0
    /\ errors = 0
    /\ trace = PromptText
    /\ region = Len(Regions)
    /\ ram = [r \in RegionIds |-> [i \in 0..1 |-> IF i = 0 THEN Sentinel0 ELSE Sentinel1]]
    /\ faults = 0
    /\ callFaulty = FALSE
    /\ reports = [r \in RegionIds |-> 0]
    /\ irq_mask = UartIrqBit
    /\ irq_ie = 1
    /\ mem = ZeroImage
    /\ hw = [e \in Engines |-> "copy"]
    /\ InitDmaRegs
    /\ InitConsole
    /\ InitIsr

NextConsole ==
    \/ UartReceive
    \/ ConsoleIdle
    \/ ConsoleService

SpecConsole == InitConsoleLoop /\ [][NextConsole]_vars

-----------------------------------------------------------------------------
(* The tests with interrupts arriving: the boot sequence, or test_dma with *)
(* its engines, interrupted by isr at any point.                           *)

\* Either the boot from reset, with at most one memory fault to come, or
\* the last invocation of test_dma, entered with the interrupts set up as
\* main sets them up.
InitInterrupted ==
    \/ /\ InitCpu(124)
       /\ region = 0
       /\ ram = [r \in RegionIds |-> [i \in 0..1 |-> 0]]
       /\ faults = MaxFaults - 1
       /\ callFaulty = FALSE
       /\ reports = <<>>
       /\ InitIrq
       /\ mem = ZeroImage
       /\ hw = [e \in Engines |-> "copy"]
       /\ InitDmaRegs
       /\ InitConsole
       /\ InitIsr
    \/ /\ InitCpu(0)
       /\ InitRam
       /\ irq_mask = UartIrqBit
       /\ irq_ie = 1
       /\ mem \in InitMems
       /\ hw \in [Engines -> HwModes]
       /\ csr = [e \in Engines |-> [read_addr |-> 0, write_addr |-> 0, len |-> 0, valid |-> 0]]
       /\ xfer = [e \in Engines |-> <<>>]
       /\ dmaRuns = MaxDmaRuns - 1
       /\ settled = FALSE
       /\ hwTouched = FALSE
       /\ InitConsole
       /\ InitIsr

NextInterrupted ==
    \/ Main
    \/ TestRam
    \/ TestDma
    \/ Hardware
    \/ IrqRaise
    \/ Isr

SpecIsr == InitInterrupted /\ [][NextInterrupted]_vars

-----------------------------------------------------------------------------
(* Properties of test_dma, checked under SpecDma.                          *)

BoolToInt(b) == IF b THEN 1 ELSE 0

\* The src and dst buffers of the pair at base, as byte sequences.
SrcBytes(base) == Bytes(mem, SrcOf(base), BufSize)
DstBytes(base) == Bytes(mem, DstOf(base), BufSize)
\* Word i of a buffer given as bytes.
WordOf(buf, i) == SubSeq(buf, i * WordSize + 1, (i + 1) * WordSize)
WordIds == 0..(BufWords - 1)

\* test_dma has returned and the last line it printed reports n errors.
DmaReported(n) ==
    /\ pc = 0
    /\ dmaRuns > 0
    /\ trace # <<>>
    /\ trace[Len(trace)].op = "print"
    /\ trace[Len(trace)].what = "DMA errors"
    /\ trace[Len(trace)].arg = n

\* C1: the post-condition check adds one exactly when the CDMA dst differs
\* from the CDMA src (line 91) and one exactly when the DMA dst differs from
\* the DMA src (line 92), whatever the memory holds at that point.
C1_PostCheckOwnBuffers ==
    [][/\ (pc = 91 /\ pc' = 92) =>
             errors' = errors + BoolToInt(DstBytes(CdmaBase) # SrcBytes(CdmaBase))
       /\ (pc = 92 /\ pc' = 95) =>
             errors' = errors + BoolToInt(DstBytes(DmaBase) # SrcBytes(DmaBase))]_vars

\* C2: when both engines copy their 16 bytes correctly and are idle when
\* the post-condition check begins, test_dma returns with cdma dst[1] =
\* 0x12345678, dma dst[2] = 0xAABBCCDD, every dst word equal to the src word
\* beside it, and a reported error count of 0.
C2_EndToEndPass ==
    (/\ pc = 0
     /\ dmaRuns > 0
     /\ settled
     /\ \A e \in Engines : hw[e] = "copy")
    => /\ WordOf(DstBytes(CdmaBase), 1) = SeedCdma
       /\ WordOf(DstBytes(DmaBase), 2) = SeedDma
       /\ DstBytes(CdmaBase) = SrcBytes(CdmaBase)
       /\ DstBytes(DmaBase) = SrcBytes(DmaBase)
       /\ DmaReported(0)

\* C4: a run of test_dma that reports 0 errors leaves no word of the CDMA
\* dst equal to the DMA seed and no word of the DMA dst equal to the CDMA
\* seed (the engines being idle from the check on, so that the buffers are
\* those the check saw).
C4_PassMeansNoCrossTalk ==
    (DmaReported(0) /\ settled)
    => \A i \in WordIds :
          /\ WordOf(DstBytes(CdmaBase), i) # SeedDma
          /\ WordOf(DstBytes(DmaBase), i) # SeedCdma

\* C5: in every interleaving with the engines, the post-condition check
\* reads an engine's dst (line 91 for CDMA, line 92 for DMA) only once that
\* engine has no transfer pending, and an engine that copies has by then
\* made its dst equal to its src.
C5_CheckAfterCompletion ==
    [][/\ (pc = 91 /\ pc' = 92) =>
             /\ xfer["cdma"] = <<>>
             /\ hw["cdma"] = "copy" => DstBytes(CdmaBase) = SrcBytes(CdmaBase)
       /\ (pc = 92 /\ pc' = 95) =>
             /\ xfer["dma"] = <<>>
             /\ hw["dma"] = "copy" => DstBytes(DmaBase) = SrcBytes(DmaBase)]_vars

-----------------------------------------------------------------------------
(* Properties of the boot sequence, checked under SpecBoot.                *)

\* C3: whenever main is in the console loop, test_ram has run once for each
\* of the seven regions and test_dma has run exactly once.
C3_TestsBeforeConsole ==
    mpc = 142 => (Len(reports) = Len(Regions) /\ Len(Regions) = 7 /\ dmaRuns = 1)

\* test_ram is about to print its count: the events of the call so far.
RamCallDone == pc = 29
\* test_ram has returned to main from its call for the region `region`.
RamReturned == pc = 0 /\ region > 0 /\ mpc = CallLine(region) + 1

\* C6: a region whose storage is functional during the call gets
\* 0x5AA55AA5 written at word 0 and 0x12345678 at word 1, reads both back
\* unchanged, and test_ram reports 0 errors for it.
C6_FunctionalRegionPasses ==
    /\ (RamCallDone /\ ~callFaulty) =>
          /\ Len(trace) = 5
          /\ trace[2] = EvWrite(0, Sentinel0)
          /\ trace[3] = EvWrite(1, Sentinel1)
          /\ trace[4] = EvRead(0, Sentinel0)
          /\ trace[5] = EvRead(1, Sentinel1)
          /\ errors = 0
    /\ (RamReturned /\ ~callFaulty) =>
          /\ reports[region] = 0
          /\ trace[Len(trace)].what = "errors"
          /\ trace[Len(trace)].arg = 0

\* A functional region tested after the faulty ones still passes.
C6_Witness ==
    /\ RamReturned
    /\ region = Len(Regions)
    /\ ~callFaulty
    /\ faults = MaxFaults
    /\ reports[region] = 0

\* C7: whatever the memory does, the count test_ram reports is the number
\* of the two words whose read-back value differs from its sentinel, so it
\* is 0, 1 or 2; both writes come before either read, and word 1 is read
\* and compared whatever the outcome for word 0.
C7_CountIsMismatches ==
    /\ RamCallDone =>
          /\ Len(trace) = 5
          /\ trace[2].op = "write" /\ trace[2].idx = 0
          /\ trace[3].op = "write" /\ trace[3].idx = 1
          /\ trace[4].op = "read" /\ trace[4].idx = 0
          /\ trace[5].op = "read" /\ trace[5].idx = 1
          /\ trace[4].val = LoadWord(ram, region, 0)
          /\ trace[5].val = LoadWord(ram, region, 1)
          /\ errors = BoolToInt(trace[4].val # Sentinel0)
                        + BoolToInt(trace[5].val # Sentinel1)
          /\ errors \in 0..2
    /\ RamReturned =>
          /\ reports[region] = errors
          /\ trace[Len(trace)].what = "errors"
          /\ trace[Len(trace)].arg = errors
          /\ errors \in 0..2

\* Word 0 read back wrong, word 1 was still checked and read back right.
C7_Witness ==
    /\ RamCallDone
    /\ trace[4].val # Sentinel0
    /\ trace[5].val = Sentinel1
    /\ errors = 1

\* C9: a failing test never stops the boot: in every run, whatever the
\* tested memories do, all seven regions get tested and main ends up in the
\* console loop for good.
C9_BootAlwaysReachesConsole ==
    <>[](mpc = 142 /\ pc = 0 /\ Len(reports) = Len(Regions))

\* The console loop entered although the first region failed both checks.
C9_Witness ==
    /\ mpc = 142
    /\ Len(reports) = Len(Regions)
    /\ reports[1] = 2

-----------------------------------------------------------------------------
(* More properties of test_dma, checked under SpecDma.                     *)

NoCsrEvent(tr) == \A i \in 1..Len(tr) : tr[i].op # "csr"

\* C8: the pre-condition check adds one when the CDMA dst equals the DMA
\* src (line 59) and one when the DMA dst equals the CDMA src (line 60); it
\* runs before test_dma has written any engine register; and when no engine
\* has written the buffers since test_dma was entered it adds nothing.
C8_PreCheck ==
    /\ [][/\ (pc = 59 /\ pc' = 60) =>
                errors' = errors + BoolToInt(DstBytes(CdmaBase) = SrcBytes(DmaBase))
          /\ (pc = 60 /\ pc' = 63) =>
                errors' = errors + BoolToInt(DstBytes(DmaBase) = SrcBytes(CdmaBase))]_vars
    /\ [](pc \in {59, 60, 63} => NoCsrEvent(trace))
    /\ [](pc \in {60, 63} /\ ~hwTouched => errors = 0)

\* The second invocation has passed its pre-condition check over the
\* buffers the first one left behind.
C8_Witness ==
    /\ pc = 63
    /\ dmaRuns = 2
    /\ ~hwTouched
    /\ errors = 0
    /\ NoCsrEvent(trace)

-----------------------------------------------------------------------------
(* Properties of the console, checked under SpecConsole.                   *)

\* The part of a sequence before the first occurrence of c.
RECURSIVE UpTo(_, _)
UpTo(q, c) == IF q = <<>> \/ Head(q) = c THEN <<>> ELSE <<Head(q)>> \o UpTo(Tail(q), c)

\* The characters in front of the cursor, and the line they form as a C string.
Typed == [i \in 1..ptr |-> s[i - 1]]
CurrentLine == UpTo(Typed, 0)
\* Its first space-delimited token.
FirstToken == UpTo(CurrentLine, 32)

HelpPrinted(tr) ==
    \E i \in 1..Len(tr) : tr[i].op = "print" /\ tr[i].what = "help"
ResetWritten(tr) ==
    \E i \in 1..Len(tr) :
        tr[i].op = "csr" /\ tr[i].engine = "ctrl" /\ tr[i].reg = "reset" /\ tr[i].val = 1
AnyCsr(tr) == \E i \in 1..Len(tr) : tr[i].op = "csr"

\* C10: a call of console_service prints the help text exactly when it
\* completes a line whose first space-delimited token is "help", writes 1
\* to the reset register exactly when that token is "reboot", and does
\* neither for any other token; no other step writes the reset register.
C10_Dispatch ==
    [][LET call == mpc = 142 /\ rx # <<>> /\ rx' = Tail(rx)
           lineEnd == Head(rx) \in {13, 10}
       IN  /\ call =>
                 /\ HelpPrinted(trace') <=> (lineEnd /\ FirstToken = HelpCmd)
                 /\ ResetWritten(trace') <=> (lineEnd /\ FirstToken = RebootCmd)
                 /\ AnyCsr(trace') => ResetWritten(trace')
                 /\ ResetWritten(trace') => ctrl_reset' = 1
                 /\ ~ResetWritten(trace') => ctrl_reset' = ctrl_reset
           /\ ~call =>
                 /\ ctrl_reset' = ctrl_reset
                 /\ trace' = trace \/ ~AnyCsr(trace')]_vars

\* A "help" line answered with the help text, after an earlier "reboot"
\* line wrote the reset register.
C10_Witness ==
    /\ mpc = 142
    /\ ctrl_reset = 1
    /\ HelpPrinted(trace)
    /\ ~AnyCsr(trace)
    /\ CStr(s, 0) = HelpCmd

\* C11: a call of console_service that writes the reset register (a
\* "reboot" line) emits nothing after that write: the write is the last
\* event of the call.
C11_NothingAfterReset ==
    [][(mpc = 142 /\ rx # <<>> /\ rx' = Tail(rx) /\ ResetWritten(trace')) =>
          /\ ctrl_reset' = 1
          /\ trace'[Len(trace')].op = "csr"]_vars

-----------------------------------------------------------------------------
(* The register protocol of test_dma, checked under SpecDma.               *)

IsCsr(e) == e.op = "csr"
\* The register writes of the current invocation, in order.
CsrEvents(tr) == SelectSeq(tr, IsCsr)

IsPrefix(a, b) == Len(a) <= Len(b) /\ SubSeq(b, 1, Len(a)) = a

\* Addresses and length first, then valid 1, then valid 0; CDMA, then DMA;
\* 16 bytes each.
StrobeProtocol ==
    <<EvCsr("cdma", "read_addr", 0), EvCsr("cdma", "write_addr", 16),
      EvCsr("cdma", "len", 16), EvCsr("cdma", "valid", 1), EvCsr("cdma", "valid", 0),
      EvCsr("dma", "read_addr", 32), EvCsr("dma", "write_addr", 48),
      EvCsr("dma", "len", 16), EvCsr("dma", "valid", 1), EvCsr("dma", "valid", 0)>>

\* C12: in each invocation of test_dma the register writes are, in this
\* order and each exactly once: CDMA read address, write address, length
\* (16, the size of dst), valid 1, valid 0, and only then the same five for
\* DMA; nothing else is written to either engine.
C12_StrobeOrder ==
    /\ IsPrefix(CsrEvents(trace), StrobeProtocol)
    /\ BufSize = 16
    /\ pc \in 42..70 => CsrEvents(trace) = <<>>
    /\ pc = 77 => Len(CsrEvents(trace)) = 5
    /\ (pc \in 84..95 \/ (pc = 0 /\ dmaRuns > 0)) => CsrEvents(trace) = StrobeProtocol
    /\ \A e \in Engines : csr[e].valid = 1 =>
          /\ pc = (IF e = "cdma" THEN 74 ELSE 81)
          /\ csr[e].len = BufSize
          /\ csr[e].read_addr = SrcOf(IF e = "cdma" THEN CdmaBase ELSE DmaBase)
          /\ csr[e].write_addr = DstOf(IF e = "cdma" THEN CdmaBase ELSE DmaBase)

\* The second invocation has strobed both engines.
C12_Witness ==
    /\ pc = 84
    /\ dmaRuns = 2
    /\ CsrEvents(trace) = StrobeProtocol
    /\ \A e \in Engines : csr[e].valid = 0 /\ csr[e].len = 16

\* Every byte 0xFF, except cdma src[1] = 0x12345678 (bytes 4..7) and
\* dma src[2] = 0xAABBCCDD (bytes 40..43), least significant byte first.
SeededImage ==
    [a \in 0..63 |->
        CASE a = 4 -> 120 [] a = 5 -> 86 [] a = 6 -> 52 [] a = 7 -> 18
          [] a = 40 -> 221 [] a = 41 -> 204 [] a = 42 -> 187 [] a = 43 -> 170
          [] OTHER -> 255]

\* C13: once an invocation of test_dma has poisoned and seeded the buffers,
\* and as long as no engine has written them since the invocation began,
\* the two pairs hold one fixed image whatever they held before: all 0xFF
\* but the two seeds; in particular both dst buffers read back all 0xFF.
C13_PoisonSeedImage ==
    (pc \in 59..95 /\ ~hwTouched) =>
        /\ mem = SeededImage
        /\ \A b \in {CdmaBase, DmaBase} : \A i \in 1..BufSize : DstBytes(b)[i] = 255

\* The second invocation has re-initialised the buffers the first one used.
C13_Witness ==
    /\ pc = 59
    /\ dmaRuns = 2
    /\ ~hwTouched
    /\ BothIdle
    /\ mem = SeededImage

\* The byte ranges of the four sub-buffers.
OwnSrcRange(e) == IF e = "cdma" THEN 0..15 ELSE 32..47
OwnDstRange(e) == IF e = "cdma" THEN 16..31 ELSE 48..63

ReadRange(d) == d.ra..(d.ra + d.len - 1)
WriteRange(d) == d.wa..(d.wa + d.len - 1)

\* In this step engine e completes a transfer.
Completes(e) == Len(xfer'[e]) < Len(xfer[e])

\* C14: every transfer test_dma starts reads exactly the engine's own src
\* and writes exactly its own dst; a transfer carried out correctly changes
\* no byte outside that dst and makes it a copy of the src; so with correct
\* engines both src buffers hold, from the pre-condition check to the
\* post-condition check, what was seeded into them.
C14_TransferFrame ==
    /\ [](\A e \in Engines : \A k \in 1..Len(xfer[e]) :
             /\ ReadRange(xfer[e][k]) = OwnSrcRange(e)
             /\ WriteRange(xfer[e][k]) = OwnDstRange(e))
    /\ [][\A e \in Engines : (Completes(e) /\ hw[e] = "copy") =>
             /\ \A a \in Addrs \ OwnDstRange(e) : mem'[a] = mem[a]
             /\ \A a \in OwnDstRange(e) : mem'[a] = mem[a - 16]]_vars
    /\ []((pc \in 59..95 /\ \A e \in Engines : hw[e] = "copy") =>
             \A a \in OwnSrcRange("cdma") \cup OwnSrcRange("dma") : mem[a] = SeededImage[a])

\* CDMA has copied its src into its dst while DMA's transfer is still
\* pending: DMA's dst and both src buffers are as seeded.
C14_Witness ==
    /\ pc = 84
    /\ \A e \in Engines : hw[e] = "copy"
    /\ xfer["cdma"] = <<>>
    /\ Len(xfer["dma"]) = 1
    /\ \A a \in OwnDstRange("cdma") : mem[a] = SeededImage[a - 16]
    /\ \A a \in Addrs \ OwnDstRange("cdma") : mem[a] = SeededImage[a]

\* The statements of test_dma in program order, by line; 0 is the return.
DmaLines == <<42, 50, 53, 54, 55, 56, 59, 60, 63, 64, 65, 66, 67, 70, 71, 72, 73, 74,
              77, 78, 79, 80, 81, 84, 85, 86, 87, 88, 91, 92, 95, 0>>

IsDump(e) == e.op = "dump"
DumpEvents(tr) == SelectSeq(tr, IsDump)

\* C15: the error counter of test_dma is 0 when an invocation begins its
\* work, changes only at the two pre-condition and the two post-condition
\* comparisons, by +1 each time at most, and so stays in 0..4; control
\* never depends on it: every statement is followed by the next one in
\* program order, so the engines are programmed, the dumps emitted and the
\* count reported whatever the pre-condition check found.
C15_AdditiveCounter ==
    /\ [][/\ pc = 42 /\ pc' # pc => errors' = 0
          /\ errors' # errors =>
                \/ pc = 42 /\ pc' # pc
                \/ pc \in {59, 60, 91, 92} /\ pc' # pc /\ errors' = errors + 1
          /\ pc' # pc =>
                \/ pc = 0 /\ pc' = 42
                \/ \E k \in 1..(Len(DmaLines) - 1) : DmaLines[k] = pc /\ DmaLines[k + 1] = pc']_vars
    /\ [](pc \in 50..59 => errors = 0)
    /\ [](pc \in 50..95 => errors \in 0..4)
    /\ [](pc = 0 /\ dmaRuns > 0 =>
             /\ DmaReported(errors)
             /\ errors \in 0..4
             /\ Len(CsrEvents(trace)) = 10
             /\ Len(DumpEvents(trace)) = 8)

\* The pre-condition check has counted an error, and both engines were
\* still programmed and all eight dumps emitted.
C15_Witness ==
    /\ pc = 91
    /\ errors >= 1
    /\ CsrEvents(trace) = StrobeProtocol
    /\ Len(DumpEvents(trace)) = 8

\* What each output event of test_dma is: a dump by its buffer name, a
\* register write as "csr", a printf by its text.
Layout(tr) ==
    [k \in 1..Len(tr) |->
        IF tr[k].op = "dump" THEN tr[k].name
        ELSE IF tr[k].op = "csr" THEN "csr"
        ELSE tr[k].what]

FourDumps == <<"src_cdma", "dst_cdma", "src_dma", "dst_dma">>

DmaLayout ==
    <<"Testing", "BEFORE state">> \o FourDumps
        \o [k \in 1..Len(StrobeProtocol) |-> "csr"]
        \o <<"AFTER state">> \o FourDumps \o <<"DMA errors">>

BufferNamed(name) ==
    CASE name = "src_cdma" -> SrcOf(CdmaBase)
      [] name = "dst_cdma" -> DstOf(CdmaBase)
      [] name = "src_dma" -> SrcOf(DmaBase)
      [] name = "dst_dma" -> DstOf(DmaBase)

DumpSteps == {64, 65, 66, 67, 85, 86, 87, 88}

\* C16: the output of an invocation of test_dma is, in order: the banner,
\* the BEFORE header and the dumps of src_cdma, dst_cdma, src_dma, dst_dma
\* (all after the pre-condition check and before the first register
\* write), the ten register writes, the AFTER header and the same four
\* dumps (before the post-condition check), and last the error count;
\* every dump has one line per word of its buffer, 4 lines, each with the
\* word's address and the value memory holds then; a dump step changes
\* neither the buffers nor the engine registers.
C16_DumpsBeforeAndAfter ==
    /\ [](IsPrefix(Layout(trace), DmaLayout))
    /\ [](pc = 70 => Len(trace) = 6)
    /\ [](pc = 91 => Len(trace) = 21)
    /\ [](pc = 0 /\ dmaRuns > 0 => Layout(trace) = DmaLayout)
    /\ [](\A k \in 1..Len(trace) : trace[k].op = "dump" =>
             /\ Len(trace[k].lines) = BufWords
             /\ \A j \in 1..BufWords :
                    trace[k].lines[j].addr = BufferNamed(trace[k].name) + (j - 1) * WordSize)
    /\ [][(pc' # pc /\ pc \in DumpSteps) =>
             /\ mem' = mem
             /\ csr' = csr
             /\ xfer' = xfer
             /\ errors' = errors
             /\ Len(trace') = Len(trace) + 1
             /\ LET out == trace'[Len(trace) + 1]
                IN  /\ out.op = "dump"
                    /\ \A j \in 1..BufWords :
                           out.lines[j].val = Bytes(mem, out.lines[j].addr, WordSize)]_vars

\* All eight dumps are out, and the "after" dump of a destination shows
\* other contents than its "before" dump did.
C16_Witness ==
    /\ pc = 91
    /\ Len(DumpEvents(trace)) = 8
    /\ trace[21].name = "dst_dma"
    /\ trace[21].lines # trace[6].lines

\* The number of the two words of region r that do not hold their sentinel.
Mismatches(r) ==
    BoolToInt(LoadWord(ram, r, 0) # Sentinel0) + BoolToInt(LoadWord(ram, r, 1) # Sentinel1)

\* C17: test_ram keeps nothing from one invocation to the next: its
\* counter is 0 again when an invocation starts its writes, an invocation
\* touches only the words of its own region, and so every count reported
\* so far, for whatever regions were tested before and whatever they
\* reported, is the number of mismatching words of its own region alone.
C17_NoStateBetweenCalls ==
    /\ [](pc \in {18, 21, 22, 23} => errors = 0)
    /\ [](pc = 29 => errors = Mismatches(region))
    /\ [](\A r \in 1..Len(reports) : reports[r] = Mismatches(r))
    /\ [][/\ \A r \in RegionIds : r # region' => ram'[r] = ram[r]
          /\ Len(reports') >= Len(reports)
          /\ \A r \in 1..Len(reports) : reports'[r] = reports[r]]_vars

\* Both words of the first region mismatched, and the call for the second
\* region, made right after it, reported 0.
C17_Witness ==
    /\ RamReturned
    /\ region = 2
    /\ reports = <<2, 0>>

-----------------------------------------------------------------------------
(* Properties of isr, checked under SpecIsr.                               *)

\* What the comparison at a line of test_dma adds to the counter.
DmaCheckAdds(line) ==
    CASE line = 59 -> BoolToInt(Memcmp(mem, SrcOf(DmaBase), DstOf(CdmaBase), BufSize) = 0)
      [] line = 60 -> BoolToInt(Memcmp(mem, SrcOf(CdmaBase), DstOf(DmaBase), BufSize) = 0)
      [] line = 91 -> BoolToInt(Memcmp(mem, SrcOf(DmaBase), DstOf(CdmaBase), BufSize) # 0)
      [] line = 92 -> BoolToInt(Memcmp(mem, SrcOf(CdmaBase), DstOf(DmaBase), BufSize) # 0)

UartPendingUnmasked ==
    BitAnd(irq_pending, UartIrqBit) # 0 /\ BitAnd(irq_mask, UartIrqBit) # 0

\* C18: an entry of isr, wherever it interrupts test_ram or test_dma,
\* changes none of the tested words, the DMA buffers, the engine
\* registers, the error counter, the position of the interrupted code or
\* its output, and it hands a character to the UART handler exactly when
\* the UART interrupt is pending and unmasked; so under interrupts the
\* counts are still what the memory alone decides: test_ram reports the
\* mismatches of its region, and each comparison of test_dma adds what
\* the buffers hold at that moment.
C18_IsrDoesNotInteract ==
    /\ [][isrEntries' # isrEntries =>
             /\ UNCHANGED <<cpuVars, ramVars, dmaVars, irqVars, s, ptr, ctrl_reset, sent>>
             /\ (rx' # rx) = UartPendingUnmasked
             /\ UartPendingUnmasked => Len(rx') = Len(rx) + 1]_vars
    /\ [](pc = 29 => errors = Mismatches(region))
    /\ [](\A r \in 1..Len(reports) : reports[r] = Mismatches(r))
    /\ [][(pc' # pc /\ pc \in {59, 60, 91, 92}) => errors' = errors + DmaCheckAdds(pc)]_vars

\* isr has been entered twice by the time test_ram has found a mismatch in
\* the first region: once it called the UART handler, once it did not.
C18_Witness ==
    /\ pc = 25
    /\ region = 1
    /\ errors = 1
    /\ isrEntries = 2
    /\ Len(rx) = 1

-----------------------------------------------------------------------------
(* Properties of the line editor readstr, checked under SpecConsole.       *)

Backspaces == {127, 8}
LineEndChars == {13, 10}
\* The characters readstr stores: all but backspace, bell and the line ends.
Stored(c) == c \notin Backspaces \cup LineEndChars \cup {7}

\* The indexes at which two buffers differ.
Changed(a, b) == {i \in DOMAIN a : a[i] # b[i]}

\* C19: the cursor of readstr is always in 0..63 and its buffer has the
\* indexes 0..63; when a character is consumed, readstr writes the buffer
\* at the cursor only (and get_token, on a completed line, only puts a NUL
\* below the cursor), a backspace at cursor 0 leaves the cursor at 0, and
\* a character to store that arrives at cursor 63 changes neither the
\* cursor nor the buffer.
C19_EditorBound ==
    /\ [](ptr \in 0..(BufLen - 1))
    /\ [](DOMAIN s = 0..(BufLen - 1))
    /\ [][(rx # <<>> /\ rx' = Tail(rx)) =>
             LET c == Head(rx)
             IN  /\ (c \in Backspaces /\ ptr = 0) => (ptr' = 0 /\ s' = s)
                 /\ (Stored(c) /\ ptr = BufLen - 1) => (ptr' = ptr /\ s' = s)
                 /\ c \notin LineEndChars => Changed(s, s') \subseteq {ptr}
                 /\ c \in LineEndChars =>
                        \A i \in Changed(s, s') : i = ptr \/ (i < ptr /\ s'[i] = 0)]_vars

\* The buffer is full and the two characters that arrived at cursor 63 have
\* been dropped; a delete and the line end are still to come.
C19_Witness ==
    /\ ptr = BufLen - 1
    /\ rx = <<127, 10>>
    /\ \A i \in 0..(BufLen - 2) : s[i] = 120

\* The line an editor makes of the characters raw: a backspace removes the
\* most recent remaining character, a bell is ignored, any other character
\* is added unless 63 are there already.
RECURSIVE Edit(_)
Edit(raw) ==
    IF raw = <<>> THEN <<>>
    ELSE LET c == raw[Len(raw)]
             e == Edit(SubSeq(raw, 1, Len(raw) - 1))
         IN  IF c \in Backspaces THEN SubSeq(e, 1, Len(e) - 1)
             ELSE IF c = 7 THEN e
             ELSE IF Len(e) >= BufLen - 1 THEN e
             ELSE Append(e, c)

\* A call of readstr takes the character at the head of rx.
TakesChar == rx # <<>> /\ rx' = Tail(rx)
\* A call of readstr finds no character.
FindsNone == rx = <<>> /\ rx' = <<>> /\ mpc = 142

\* When readstr returns a line and when NULL, and what it leaves behind.
ReturnsOnLineEnd ==
    /\ [][TakesChar => (ret'.line = (Head(rx) \in LineEndChars))]_vars
    /\ [][FindsNone => ~ret'.line]_vars
    /\ [][TakesChar => (heard' = IF Head(rx) \in LineEndChars THEN <<>> ELSE Append(heard, Head(rx)))]_vars
    /\ [](ret.line => ptr = 0 /\ heard = <<>>)

\* C20 as stated: readstr returns a line on '\r' or '\n' only and NULL on
\* every other call; the string it returns is the edited sequence of the
\* characters received since the previous line end; the cursor is 0 after
\* a line has been returned.
C20_ReturnsEditedLine ==
    /\ ReturnsOnLineEnd
    /\ [](ret.line => ret.str = Edit(ret.raw))

\* C20, amended: as stated, except that the string returned is the edited
\* sequence up to its first NUL character: a received NUL is stored like
\* any character and ends the C string readstr returns.
C20_ReturnsEditedLineToNul ==
    /\ ReturnsOnLineEnd
    /\ [](ret.line => ret.str = UpTo(Edit(ret.raw), 0))
    /\ [](ret.line /\ (\A k \in 1..Len(ret.raw) : ret.raw[k] # 0) => ret.str = Edit(ret.raw))

\* "help", a NUL and the line end were received: the line returned is
\* "help", one character short of the edited sequence.
C20_Witness ==
    /\ ret.line
    /\ ret.raw = HelpCmd \o <<0>>
    /\ ret.str = HelpCmd
    /\ Edit(ret.raw) = HelpCmd \o <<0>>

====
